---- MODULE Spec2Model ----
(***************************************************************************)
(* Investment record lifecycle of mone-goblin: the actix HTTP handlers     *)
(* (actix-surrealdb-api/src/api.rs) over the record store adapter, and the *)
(* yew client (yew-web/src/app.rs) whose controller commits backend        *)
(* responses into the reducer-held collection `investments`.               *)
(***************************************************************************)
EXTENDS Integers, Sequences, FiniteSets, TLC

VARIABLES
    db,          \* backend store: the stored records, in insertion order
    nextId,      \* backend store: the next identifier the store assigns
    now,         \* wall clock read by the store when it stamps a record
    investments, \* client: InvestmentState.investments (app.rs:11)
    mounted,     \* client: App has rendered once, so its effect has run
    running,     \* client: the wasm process has not panicked
    calls,       \* controller calls in flight (request sent / response on the way)
    issued,      \* number of controller calls started so far
    initCalls,   \* number of times init_investments was invoked
    overlapInit, \* history: an intent was issued while initialize was in flight
    overlapEdit, \* history: two edits of one id were in flight together
    lastSeen,    \* history: per id, what the latest arrived successful response said
    arrived,     \* history: the responses the controller has handled, in arrival order
    apiLog,      \* direct API use: the requests served and their responses
    form,        \* which form component is on the page: "create", "renew", "none"
    state,       \* CreateInvForm.state (create_inv_form.rs:14)
    props_investment,        \* RenewInvForm.props.investment (renew_inv_form.rs:23)
    error_messages,          \* BaseFormComponent.error_messages of the form
    form_changed,            \* RenewInvForm.form_changed
    show_renew_confirmation, \* RenewInvForm.show_renew_confirmation
    emitted      \* what the form's last update emitted on its callbacks

formVars == <<form, state, props_investment, error_messages, form_changed,
              show_renew_confirmation, emitted>>

vars == <<db, nextId, now, investments, mounted, running, calls, issued,
          initCalls, overlapInit, overlapEdit, lastSeen, arrived, apiLog,
          form, state, props_investment, error_messages, form_changed,
          show_renew_confirmation, emitted>>

\* ------------------------------------------------------------------ bounds
MaxCalls == 2
MaxClock == 1
MaxApiCalls == 2

\* ------------------------------------------------------------------ values
None == <<>>
Some(x) == <<x>>
IsSome(o) == o # None
Unwrap(o) == o[1]

Names == {"a", "b"}
Amounts == {1, 2}

Range(s) == {s[i] : i \in DOMAIN s}
Ids(s) == {s[i].id : i \in DOMAIN s}

\* types::Investment / types::Investment2: one record shape on both sides of
\* the wire; "" and 0 are the blank values a form starts from.
BlankInv ==
    [id |-> None, inv_name |-> "", return_amount |-> 0,
     created_at |-> None, updated_at |-> None]

\* Records a create form can emit: every required field filled, no id.
ApiCandidates ==
    {[BlankInv EXCEPT !.inv_name = "a", !.return_amount = 1],
     [BlankInv EXCEPT !.inv_name = "b", !.return_amount = 2]}

\* The record the user of the modelled session submits for creation.
Candidates == {[BlankInv EXCEPT !.inv_name = "b", !.return_amount = 2]}

\* What a renew form opened on record r can emit: r with one field edited.
EditsOf(r) ==
    {[r EXCEPT !.inv_name = n] : n \in Names \ {r.inv_name}}
        \cup {[r EXCEPT !.return_amount = a] : a \in Amounts \ {r.return_amount}}

\* ------------------------------------------------------------ results
Ok(rec, rows, all) ==
    [ok |-> TRUE, err |-> "", rec |-> rec, rows |-> rows, all |-> all]
OkRec(r) == Ok(Some(r), 0, <<>>)
OkRows(n) == Ok(None, n, <<>>)
OkAll(s) == Ok(None, 0, s)
Err(kind) == [ok |-> FALSE, err |-> kind, rec |-> None, rows |-> 0, all |-> <<>>]

\* ---------------------------------------------------- record store adapter
\* The adapter works on st = [db, nextId]; `up` is whether the data store
\* answers.  Each operation returns the new store and its Result.
Store == [db |-> db, nextId |-> nextId]

IndexOf(s, id) == CHOOSE i \in DOMAIN s : s[i].id = Some(id)
Has(s, id) == \E i \in DOMAIN s : s[i].id = Some(id)
Without(s, id) == SelectSeq(s, LAMBDA r : r.id # Some(id))

\* Mutant of add_inv: the id handed out is not used up.
add_inv_same_id(st, t, up, inv) ==
    IF ~up THEN [st |-> st, res |-> Err("StoreUnavailable")]
    ELSE LET rec == [inv EXCEPT !.id = Some(st.nextId),
                                !.created_at = Some(t),
                                !.updated_at = Some(t)]
         IN [st |-> [db |-> Append(st.db, rec), nextId |-> st.nextId],
             res |-> OkRec(rec)]

add_inv(st, t, up, inv) ==
    IF ~up THEN [st |-> st, res |-> Err("StoreUnavailable")]
    ELSE LET rec == [inv EXCEPT !.id = Some(st.nextId),
                                !.created_at = Some(t),
                                !.updated_at = Some(t)]
         IN [st |-> [db |-> Append(st.db, rec), nextId |-> st.nextId + 1],
             res |-> OkRec(rec)]

get_inv(st, up, id) ==
    IF ~up THEN [st |-> st, res |-> Err("StoreUnavailable")]
    ELSE IF Has(st.db, id)
         THEN [st |-> st, res |-> OkRec(st.db[IndexOf(st.db, id)])]
         ELSE [st |-> st, res |-> Err("NotFound")]

\* Merge of a patch over the stored record: a blank field is an omitted one;
\* id and created_at stay, updated_at is stamped.
Merge(old, patch, t) ==
    [old EXCEPT
        !.inv_name = IF patch.inv_name = "" THEN @ ELSE patch.inv_name,
        !.return_amount = IF patch.return_amount = 0 THEN @ ELSE patch.return_amount,
        !.updated_at = Some(t)]

update_inv(st, t, up, patch) ==
    IF ~up THEN [st |-> st, res |-> Err("StoreUnavailable")]
    ELSE IF IsSome(patch.id) /\ Has(st.db, Unwrap(patch.id))
         THEN LET i == IndexOf(st.db, Unwrap(patch.id))
                  rec == Merge(st.db[i], patch, t)
              IN [st |-> [st EXCEPT !.db = [st.db EXCEPT ![i] = rec]],
                  res |-> OkRec(rec)]
         ELSE [st |-> st, res |-> Err("NotFound")]

delete_inv(st, up, id) ==
    IF ~up THEN [st |-> st, res |-> Err("StoreUnavailable")]
    ELSE IF Has(st.db, id)
         THEN [st |-> [st EXCEPT !.db = Without(st.db, id)], res |-> OkRows(1)]
         ELSE [st |-> st, res |-> OkRows(0)]

get_all_invs(st, up) ==
    IF ~up THEN [st |-> st, res |-> Err("StoreUnavailable")]
    ELSE [st |-> st, res |-> OkAll(st.db)]

\* ------------------------------------------------------------ API surface
\* Status of the response an adapter error becomes (ResponseError of the
\* crate's Error type).
error_status(kind) ==
    CASE kind = "NotFound" -> 404
      [] kind = "StoreUnavailable" -> 503
      [] OTHER -> 500

\* `let x = adapter(..).await?; Ok(Json(x))`: the adapter's value as a 200,
\* its error unchanged.
\* Mutant of Respond: every adapter error is answered as one internal error.
Respond_internal(r) ==
    [st |-> r.st,
     http |-> IF r.res.ok THEN [status |-> 200, body |-> r.res]
              ELSE [status |-> 500, body |-> Err("Internal")]]

Respond(r) ==
    [st |-> r.st,
     http |-> [status |-> IF r.res.ok THEN 200 ELSE error_status(r.res.err),
               body |-> r.res]]

\* Mutant of create: the handler answers with the request body, not with
\* the record the adapter returned.
create_echo(st, t, up, inv) ==
    LET r == Respond(add_inv(st, t, up, inv))
    IN IF r.http.body.ok
       THEN [r EXCEPT !.http.body.rec = Some(inv)]
       ELSE r

create(st, t, up, inv) == Respond(add_inv(st, t, up, inv))
\* Mutant of get: a failed read is answered with a blank record.
get_default(st, up, id) ==
    LET r == Respond(get_inv(st, up, id))
    IN IF r.http.body.ok THEN r
       ELSE [st |-> r.st, http |-> [status |-> 200, body |-> OkRec(BlankInv)]]

get(st, up, id) == Respond(get_inv(st, up, id))
\* Mutant of update: the handler calls the adapter's create.
update_as_create(st, t, up, inv) == Respond(add_inv(st, t, up, inv))

\* Mutant of update: the handler answers with the record as it was stored
\* before the update.
update_stale(st, t, up, inv) ==
    LET r == Respond(update_inv(st, t, up, inv))
    IN IF r.http.body.ok
       THEN [r EXCEPT !.http.body.rec = Some(st.db[IndexOf(st.db, Unwrap(inv.id))])]
       ELSE r

update(st, t, up, inv) == Respond(update_inv(st, t, up, inv))
\* Mutant of delete: the handler reads the record first and fails with the
\* read's error.
delete_checked(st, up, id) ==
    IF get_inv(st, up, id).res.ok
    THEN Respond(delete_inv(st, up, id))
    ELSE Respond(get_inv(st, up, id))

delete(st, up, id) == Respond(delete_inv(st, up, id))
list(st, up) == Respond(get_all_invs(st, up))

NoHttp == [status |-> 0, body |-> Err("")]


\* ------------------------------------------------------ client state store
\* The reducer's four mutations over the ordered collection.
replaceAll(s, recs) == recs

append(s, rec) == Append(s, rec)

removeById(s, id) == SelectSeq(s, LAMBDA r : r.id # id)

replaceById(s, rec) ==
    [i \in DOMAIN s |-> IF s[i].id = rec.id THEN rec ELSE s[i]]

\* -------------------------------------------------------- client controller
\* A call in flight: the request sent, then the response on its way back.
NewCall(k, kind, arg) ==
    [n |-> k, kind |-> kind, arg |-> arg, stage |-> "sent", http |-> NoHttp]

Succeeded(http) == http.status = 200

\* What each controller method does with the response it awaited.
init_investments(s, http) ==
    IF Succeeded(http) THEN replaceAll(s, http.body.all) ELSE s

\* Mutant of create_investment: the response is dropped.
create_investment_drop(s, http) == s

create_investment(s, http) ==
    IF Succeeded(http) THEN append(s, Unwrap(http.body.rec)) ELSE s

\* Mutant of delete_investment: the affected count is not looked at.
delete_investment_any(s, id, http) ==
    IF Succeeded(http) THEN removeById(s, id) ELSE s

delete_investment(s, id, http) ==
    IF Succeeded(http) /\ http.body.rows >= 1 THEN removeById(s, id) ELSE s

edit_investment(s, http) ==
    IF Succeeded(http) THEN replaceById(s, Unwrap(http.body.rec)) ELSE s

\* Mutant of on_error: the failed request is sent again.
on_error_retry(c) ==
    [resend |-> {[c EXCEPT !.stage = "sent", !.http = NoHttp]}, running |-> TRUE]

\* A failed call: nothing is sent again, and the client keeps running.
on_error(c) == [resend |-> {}, running |-> TRUE]

\* ------------------------------------------------------------------ app
\* Mutant of EffectRuns: an effect without dependencies, run after every render.
EffectRuns_always(firstRender) == TRUE

\* use_effect_with_deps(.., ()): the effect runs after the first render only.
EffectRuns(firstRender) == firstRender

\* App renders: the calls in flight, the call count and the init count after
\* its effect had its chance to run.
Render(firstRender, cs, k, inits) ==
    IF EffectRuns(firstRender)
    THEN [calls |-> cs \cup {NewCall(k + 1, "list", BlankInv)},
          issued |-> k + 1, initCalls |-> inits + 1]
    ELSE [calls |-> cs, issued |-> k, initCalls |-> inits]

InFlight(kind) == {c \in calls : c.kind = kind}

\* ---------------------------------------------------------------- state
Stored0 ==
    [id |-> Some(1), inv_name |-> "a", return_amount |-> 1,
     created_at |-> Some(0), updated_at |-> Some(0)]

\* types::Investment as the forms hold it: the nine fields a form edits, and
\* id, created_at and updated_at.
BlankState ==
    [id |-> None, inv_name |-> "", name |-> "", inv_type |-> "",
     return_type |-> "", inv_amount |-> 0, return_amount |-> 0,
     return_rate |-> 0, start_date |-> None, end_date |-> None,
     created_at |-> None, updated_at |-> None]

\* HashMap::new()
NoErrors == [k \in {} |-> ""]

\* No form component has been created.
NoForm ==
    /\ form = "none"
    /\ state = BlankState
    /\ props_investment = BlankState
    /\ error_messages = NoErrors
    /\ form_changed = FALSE
    /\ show_renew_confirmation = FALSE
    /\ emitted = <<>>

Init ==
    /\ NoForm
    /\ \E pre \in BOOLEAN :
          /\ db = IF pre THEN <<Stored0>> ELSE <<>>
          /\ nextId = IF pre THEN 2 ELSE 1
    /\ now = 0
    /\ investments = <<>>
    /\ mounted = FALSE
    /\ running = TRUE
    /\ calls = {}
    /\ issued = 0
    /\ initCalls = 0
    /\ overlapInit = FALSE
    /\ overlapEdit = FALSE
    /\ lastSeen = <<>>
    /\ arrived = <<>>
    /\ apiLog = <<>>

\* ------------------------------------------------------- client actions
\* First render of App (app.rs:10-25): the effect calls init_investments.
Mount ==
    /\ ~mounted
    /\ running
    /\ mounted' = TRUE
    /\ LET r == Render(TRUE, calls, issued, initCalls)
       IN /\ calls' = r.calls
          /\ issued' = r.issued
          /\ initCalls' = r.initCalls
    /\ UNCHANGED formVars
    /\ UNCHANGED <<db, nextId, now, investments, running, overlapInit, overlapEdit, lastSeen,
                   arrived, apiLog>>

\* Mutant of on_create_investment: the candidate is shown before the backend
\* has answered.
on_create_investment_optimistic(inv) ==
    /\ mounted /\ running
    /\ issued <= MaxCalls
    /\ calls' = calls \cup {NewCall(issued + 1, "create", inv)}
    /\ issued' = issued + 1
    /\ investments' = append(investments, inv)
    /\ overlapInit' = (overlapInit \/ InFlight("list") # {})
    /\ UNCHANGED formVars
    /\ UNCHANGED <<db, nextId, now, mounted, running, initCalls,
                   overlapEdit, lastSeen, arrived, apiLog>>

\* The create form's callback (app.rs:27-31).
on_create_investment(inv) ==
    /\ mounted /\ running
    /\ issued <= MaxCalls
    /\ calls' = calls \cup {NewCall(issued + 1, "create", inv)}
    /\ issued' = issued + 1
    /\ overlapInit' = (overlapInit \/ InFlight("list") # {})
    /\ UNCHANGED formVars
    /\ UNCHANGED <<db, nextId, now, investments, mounted, running, initCalls,
                   overlapEdit, lastSeen, arrived, apiLog>>

\* The delete button of a listed item (app.rs:33-37, inv_list.rs:25-28).
on_delete_investment(id) ==
    /\ mounted /\ running
    /\ issued <= MaxCalls
    /\ id \in Ids(investments)
    /\ calls' = calls \cup {NewCall(issued + 1, "delete", [BlankInv EXCEPT !.id = id])}
    /\ issued' = issued + 1
    /\ overlapInit' = (overlapInit \/ InFlight("list") # {})
    /\ UNCHANGED formVars
    /\ UNCHANGED <<db, nextId, now, investments, mounted, running, initCalls,
                   overlapEdit, lastSeen, arrived, apiLog>>

\* The renew form of a listed item (app.rs:39-43, inv_list.rs:25-28).
on_edit_investment(patch) ==
    /\ mounted /\ running
    /\ issued <= MaxCalls
    /\ \E r \in Range(investments) : patch \in EditsOf(r)
    /\ calls' = calls \cup {NewCall(issued + 1, "edit", patch)}
    /\ issued' = issued + 1
    /\ overlapInit' = (overlapInit \/ InFlight("list") # {})
    /\ overlapEdit' = (overlapEdit \/ \E c \in InFlight("edit") : c.arg.id = patch.id)
    /\ UNCHANGED formVars
    /\ UNCHANGED <<db, nextId, now, investments, mounted, running, initCalls,
                   lastSeen, arrived, apiLog>>


\* ------------------------------------------------------ backend actions
\* One HTTP request served: the handler runs against the store.  `up` is
\* whether the data store answered this request.
Answer(c, r) ==
    /\ db' = r.st.db
    /\ nextId' = r.st.nextId
    /\ calls' = (calls \ {c}) \cup {[c EXCEPT !.stage = "answered", !.http = r.http]}
    /\ UNCHANGED formVars
    /\ UNCHANGED <<now, investments, mounted, running, issued, initCalls, overlapInit, overlapEdit,
                   lastSeen, arrived, apiLog>>

HandleCreate(c) ==
    /\ c \in calls /\ c.kind = "create" /\ c.stage = "sent"
    /\ \E up \in BOOLEAN : Answer(c, create(Store, now, up, c.arg))

HandleUpdate(c) ==
    /\ c \in calls /\ c.kind = "edit" /\ c.stage = "sent"
    /\ \E up \in BOOLEAN : Answer(c, update(Store, now, up, c.arg))

HandleDelete(c) ==
    /\ c \in calls /\ c.kind = "delete" /\ c.stage = "sent"
    /\ \E up \in BOOLEAN : Answer(c, delete(Store, up, Unwrap(c.arg.id)))

HandleList(c) ==
    /\ c \in calls /\ c.kind = "list" /\ c.stage = "sent"
    /\ \E up \in BOOLEAN : Answer(c, list(Store, up))

\* Time passes.
Tick ==
    /\ now < MaxClock
    /\ now' = now + 1
    /\ UNCHANGED formVars
    /\ UNCHANGED <<db, nextId, investments, mounted, running, calls, issued,
                   initCalls, overlapInit, overlapEdit, lastSeen, arrived, apiLog>>

\* ------------------------------------------- client actions: responses
Entry(c) ==
    [n |-> c.n, kind |-> c.kind, id |-> c.arg.id, ok |-> Succeeded(c.http),
     rows |-> c.http.body.rows]

\* The key a record is filed under: its id (0 for a record without one).
Key(r) == IF IsSome(r.id) THEN Unwrap(r.id) ELSE 0

\* What the response of c says about each id it mentions.
Noted(c) ==
    IF ~Succeeded(c.http) THEN lastSeen
    ELSE CASE c.kind = "list" ->
                LET all == c.http.body.all
                    ks == {Key(all[i]) : i \in DOMAIN all}
                IN [k \in DOMAIN lastSeen \cup ks |->
                       IF k \in ks
                       THEN Some(all[CHOOSE i \in DOMAIN all : Key(all[i]) = k])
                       ELSE None]
           [] c.kind \in {"create", "edit"} ->
                LET rec == Unwrap(c.http.body.rec)
                IN [k \in DOMAIN lastSeen \cup {Key(rec)} |->
                       IF k = Key(rec) THEN Some(rec) ELSE lastSeen[k]]
           [] OTHER ->
                IF c.http.body.rows >= 1
                THEN [k \in DOMAIN lastSeen \cup {Key(c.arg)} |->
                         IF k = Key(c.arg) THEN None ELSE lastSeen[k]]
                ELSE lastSeen

\* The awaited response of call c arrives and the controller resumes: it
\* dispatches `after` into the reducer (App re-renders) or handles the error.
Resume(c, after) ==
    /\ c \in calls /\ c.stage = "answered"
    /\ running
    /\ investments' = after
    /\ LET rest == calls \ {c}
           r == IF Succeeded(c.http)
                THEN Render(FALSE, rest, issued, initCalls)
                ELSE [calls |-> rest \cup on_error(c).resend,
                      issued |-> issued, initCalls |-> initCalls]
       IN /\ calls' = r.calls
          /\ issued' = r.issued
          /\ initCalls' = r.initCalls
    /\ running' = IF Succeeded(c.http) THEN running ELSE on_error(c).running
    /\ arrived' = Append(arrived, Entry(c))
    /\ lastSeen' = Noted(c)
    /\ UNCHANGED formVars
    /\ UNCHANGED <<db, nextId, now, mounted, overlapInit, overlapEdit, apiLog>>

InitResponse(c) ==
    /\ c.kind = "list"
    /\ Resume(c, init_investments(investments, c.http))

CreateResponse(c) ==
    /\ c.kind = "create"
    /\ Resume(c, create_investment(investments, c.http))

DeleteResponse(c) ==
    /\ c.kind = "delete"
    /\ Resume(c, delete_investment(investments, c.arg.id, c.http))

\* Mutant of EditResponse: last call wins, the response of an edit issued
\* before one already answered is dropped.
EditResponse_lastCall(c) ==
    /\ c.kind = "edit"
    /\ Resume(c, IF \E i \in DOMAIN arrived :
                        /\ arrived[i].kind = "edit" /\ arrived[i].ok
                        /\ arrived[i].id = c.arg.id /\ arrived[i].n > c.n
                 THEN investments
                 ELSE edit_investment(investments, c.http))

EditResponse(c) ==
    /\ c.kind = "edit"
    /\ Resume(c, edit_investment(investments, c.http))

\* ---------------------------------------------------------- specification
Next ==
    \/ Mount
    \/ \E inv \in Candidates : on_create_investment(inv)
    \/ \E id \in Ids(investments) : on_delete_investment(id)
    \/ \E r \in Range(investments) : \E p \in EditsOf(r) : on_edit_investment(p)
    \/ \E c \in calls : HandleCreate(c)
    \/ \E c \in calls : HandleUpdate(c)
    \/ \E c \in calls : HandleDelete(c)
    \/ \E c \in calls : HandleList(c)
    \/ \E c \in calls : InitResponse(c)
    \/ \E c \in calls : CreateResponse(c)
    \/ \E c \in calls : DeleteResponse(c)
    \/ \E c \in calls : EditResponse(c)
    \/ Tick

Spec == Init /\ [][Next]_vars


\* ------------------------------------------------- direct use of the API
\* Any HTTP client may call the five endpoints; each request is served in
\* one step and logged with its response.
ApiIds == 1..MaxApiCalls

ApiPatches ==
    {[BlankInv EXCEPT !.id = Some(i), !.inv_name = p[1], !.return_amount = p[2]] :
        i \in ApiIds, p \in {<<"b", 0>>, <<"b", 2>>}}

Served(op, arg, up, r) ==
    /\ Len(apiLog) < MaxApiCalls
    /\ db' = r.st.db
    /\ nextId' = r.st.nextId
    /\ apiLog' = Append(apiLog, [op |-> op, arg |-> arg, up |-> up, http |-> r.http])
    /\ UNCHANGED formVars
    /\ UNCHANGED <<now, investments, mounted, running, calls, issued, initCalls,
                   overlapInit, overlapEdit, lastSeen, arrived>>

ApiCreate(inv) ==
    \E up \in BOOLEAN : Served("create", inv, up, create(Store, now, up, inv))

ApiGet(id) ==
    \E up \in BOOLEAN :
        Served("get", [BlankInv EXCEPT !.id = Some(id)], up, get(Store, up, id))

ApiUpdate(patch) ==
    \E up \in BOOLEAN : Served("update", patch, up, update(Store, now, up, patch))

ApiDelete(id) ==
    \E up \in BOOLEAN :
        Served("delete", [BlankInv EXCEPT !.id = Some(id)], up, delete(Store, up, id))

ApiList ==
    \E up \in BOOLEAN : Served("list", BlankInv, up, list(Store, up))

NextApi ==
    \/ \E inv \in ApiCandidates : ApiCreate(inv)
    \/ \E id \in ApiIds : ApiGet(id)
    \/ \E p \in ApiPatches : ApiUpdate(p)
    \/ \E id \in ApiIds : ApiDelete(id)
    \/ ApiList
    \/ Tick

SpecApi == Init /\ [][NextApi]_vars


\* ------------------------------------------------------------------ forms
\* The keys of the nine fields, as the views pass them to the field helpers.
TextKeys == {"inv-name", "name", "inv-type", "return-type"}
AmountKeys == {"inv-amount", "return-amount", "return-rate"}
DateKeys == {"start-date", "end-date"}
FieldKeys == TextKeys \cup AmountKeys \cup DateKeys

\* HashMap::insert and HashMap::remove on error_messages.
Insert(em, k, m) == [x \in DOMAIN em \cup {k} |-> IF x = k THEN m ELSE em[x]]
Remove(em, k) == [x \in DOMAIN em \ {k} |-> em[x]]

\* `value.parse().unwrap_or(0)` over the texts typed into a number input.
parse_or_0(value) ==
    CASE value = "1" -> 1
      [] value = "5" -> 5
      [] value = "1000" -> 1000
      [] OTHER -> 0

\* What the user can enter into each field: free text, the options of the two
\* selects, texts of a number input, and the dates a date input parses to.
InputsOf(field) ==
    CASE field \in {"inv-name", "name"} -> {"", "x"}
      [] field = "inv-type" -> {"FD", "RD"}
      [] field = "return-type" -> {"Ordinary", "Culmulative"}
      [] field = "inv-amount" -> {"", "1", "1000"}
      [] OTHER -> {"x", "5"}

DatesOf(field) ==
    IF field = "start-date" THEN {None, Some(2)} ELSE {None, Some(1), Some(3)}

\* An emission on one of the callbacks the parent passed to the form.
Emit(cb, inv) == [cb |-> cb, inv |-> Some(inv)]
EmitUnit(cb) == [cb |-> cb, inv |-> None]

\* ---- CreateInvForm (create_inv_form.rs); c = [state, error_messages]
\* Mutant of CreateInvForm_create: the form stamps the record it starts from.
CreateInvForm_create_stamped ==
    [state |-> [BlankState EXCEPT !.created_at = Some(0), !.updated_at = Some(0)],
     error_messages |-> NoErrors]

CreateInvForm_create == [state |-> BlankState, error_messages |-> NoErrors]

\* Mutant of create_update_field: the field's message is removed only when
\* the value entered meets the field's requirement.
create_update_field_sticky(c, field, value) ==
    LET inv == c.state
        set == CASE field = "inv-name" -> [inv EXCEPT !.inv_name = value]
                 [] field = "name" -> [inv EXCEPT !.name = value]
                 [] field = "inv-type" -> [inv EXCEPT !.inv_type = value]
                 [] field = "return-type" -> [inv EXCEPT !.return_type = value]
                 [] field = "inv-amount" ->
                      [inv EXCEPT !.inv_amount = parse_or_0(value)]
                 [] field = "return-amount" ->
                      [inv EXCEPT !.return_amount = parse_or_0(value)]
                 [] field = "return-rate" ->
                      [inv EXCEPT !.return_rate = parse_or_0(value)]
                 [] OTHER -> inv
        meets == IF field \in AmountKeys THEN parse_or_0(value) # 0 ELSE value # ""
    IN [state |-> set,
        error_messages |-> IF meets THEN Remove(c.error_messages, field)
                           ELSE c.error_messages]

create_update_field(c, field, value) ==
    CASE field = "inv-name" ->
           [c EXCEPT !.state.inv_name = value,
                     !.error_messages = Remove(@, "inv-name")]
      [] field = "name" ->
           [c EXCEPT !.state.name = value,
                     !.error_messages = Remove(@, "name")]
      [] field = "inv-type" ->
           [c EXCEPT !.state.inv_type = value,
                     !.error_messages = Remove(@, "inv-type")]
      [] field = "return-type" ->
           [c EXCEPT !.state.return_type = value,
                     !.error_messages = Remove(@, "return-type")]
      [] field = "inv-amount" ->
           [c EXCEPT !.state.inv_amount = parse_or_0(value),
                     !.error_messages = Remove(@, "inv-amount")]
      [] field = "return-amount" ->
           [c EXCEPT !.state.return_amount = parse_or_0(value),
                     !.error_messages = Remove(@, "return-amount")]
      [] field = "return-rate" ->
           [c EXCEPT !.state.return_rate = parse_or_0(value),
                     !.error_messages = Remove(@, "return-rate")]
      [] OTHER -> c

\* Mutant of create_update_date: the date is stored and the messages are
\* left as they are.
create_update_date_keep(c, field, date) ==
    CASE field = "start-date" -> [c EXCEPT !.state.start_date = date]
      [] field = "end-date" -> [c EXCEPT !.state.end_date = date]
      [] OTHER -> c

create_update_date(c, field, date) ==
    CASE field = "start-date" ->
           [c EXCEPT !.state.start_date = date,
                     !.error_messages = Remove(@, "start-date")]
      [] field = "end-date" ->
           [c EXCEPT !.state.end_date = date,
                     !.error_messages = Remove(@, "end-date")]
      [] OTHER -> c

\* Mutant of Check: after the first failing check the later ones insert no
\* message.
Check_first(acc, violated, key, message) ==
    IF violated /\ acc.is_valid
    THEN [em |-> Insert(acc.em, key, message), is_valid |-> FALSE]
    ELSE acc

\* One check of validate_form: a failing one inserts the field's message and
\* clears is_valid; the checks that follow run either way.
Check(acc, violated, key, message) ==
    IF violated
    THEN [em |-> Insert(acc.em, key, message), is_valid |-> FALSE]
    ELSE acc

\* Mutant of create_validate_form: an end date that is not after the start
\* date is rejected too.
create_validate_form_ordered(c) ==
    LET inv == c.state
        s0 == [em |-> c.error_messages, is_valid |-> TRUE]
        s1 == Check(s0, inv.inv_name = "", "inv-name", "Investment Name can not be blank")
        s2 == Check(s1, inv.name = "", "name", "Name can not be blank")
        s3 == Check(s2, inv.inv_type = "", "inv-type", "Investment Type can not be blank")
        s4 == Check(s3, inv.return_type = "", "return-type", "Return Type can not be blank")
        s5 == Check(s4, inv.inv_amount = 0, "inv-amount", "Investment Amount can not be blank")
        s6 == Check(s5, inv.return_amount = 0, "return-amount", "Return Amount can not be blank")
        s7 == Check(s6, inv.return_rate = 0, "return-rate", "Return Rate can not be blank")
        s8 == Check(s7, inv.start_date = None, "start-date", "Start Date can not be blank")
        s9 == Check(s8, inv.end_date = None, "end-date", "End Date can not be blank")
        s10 == Check(s9, inv.start_date # None /\ inv.end_date # None
                             /\ Unwrap(inv.start_date) >= Unwrap(inv.end_date),
                     "end-date", "End Date must be after Start Date")
    IN [c |-> [c EXCEPT !.error_messages = s10.em], is_valid |-> s10.is_valid]

create_validate_form(c) ==
    LET inv == c.state
        s0 == [em |-> c.error_messages, is_valid |-> TRUE]
        s1 == Check(s0, inv.inv_name = "", "inv-name", "Investment Name can not be blank")
        s2 == Check(s1, inv.name = "", "name", "Name can not be blank")
        s3 == Check(s2, inv.inv_type = "", "inv-type", "Investment Type can not be blank")
        s4 == Check(s3, inv.return_type = "", "return-type", "Return Type can not be blank")
        s5 == Check(s4, inv.inv_amount = 0, "inv-amount", "Investment Amount can not be blank")
        s6 == Check(s5, inv.return_amount = 0, "return-amount", "Return Amount can not be blank")
        s7 == Check(s6, inv.return_rate = 0, "return-rate", "Return Rate can not be blank")
        s8 == Check(s7, inv.start_date = None, "start-date", "Start Date can not be blank")
        s9 == Check(s8, inv.end_date = None, "end-date", "End Date can not be blank")
    IN [c |-> [c EXCEPT !.error_messages = s9.em], is_valid |-> s9.is_valid]

\* Mutant of create_save_form: the record is emitted whatever validate_form
\* answered.
create_save_form_unchecked(c) ==
    LET v == create_validate_form(c)
    IN [c |-> v.c, emitted |-> <<Emit("create_investment", v.c.state)>>,
        saved |-> v.is_valid]

create_save_form(c) ==
    LET v == create_validate_form(c)
    IN IF v.is_valid
       THEN [c |-> v.c, emitted |-> <<Emit("create_investment", v.c.state)>>,
             saved |-> TRUE]
       ELSE [c |-> v.c, emitted |-> <<>>, saved |-> FALSE]

create_reset_form(c) ==
    [c EXCEPT !.state.inv_name = "", !.state.name = "", !.state.inv_type = "",
              !.state.return_type = "", !.state.inv_amount = 0,
              !.state.return_amount = 0, !.state.return_rate = 0,
              !.state.start_date = None, !.state.end_date = None]


\* ---- RenewInvForm (renew_inv_form.rs);
\* r = [form_changed, show_renew_confirmation, investment, error_messages]
RenewInvForm_create(inv) ==
    [form_changed |-> FALSE, show_renew_confirmation |-> FALSE,
     investment |-> inv, error_messages |-> NoErrors]

renew_update_field(r, field, value) ==
    LET inv == r.investment
        set == CASE field = "inv-name" -> [inv EXCEPT !.inv_name = value]
                 [] field = "name" -> [inv EXCEPT !.name = value]
                 [] field = "inv-type" -> [inv EXCEPT !.inv_type = value]
                 [] field = "return-type" -> [inv EXCEPT !.return_type = value]
                 [] field = "inv-amount" ->
                      [inv EXCEPT !.inv_amount = parse_or_0(value)]
                 [] field = "return-amount" ->
                      [inv EXCEPT !.return_amount = parse_or_0(value)]
                 [] field = "return-rate" ->
                      [inv EXCEPT !.return_rate = parse_or_0(value)]
                 [] OTHER -> inv
    IN [r EXCEPT !.investment = set,
                 !.error_messages = Remove(@, field),
                 !.form_changed = TRUE]

renew_update_date(r, field, date) ==
    LET inv == r.investment
        set == CASE field = "start-date" -> [inv EXCEPT !.start_date = date]
                 [] field = "end-date" -> [inv EXCEPT !.end_date = date]
                 [] OTHER -> inv
    IN [r EXCEPT !.investment = set,
                 !.error_messages = Remove(@, field),
                 !.form_changed = TRUE]

\* Mutant of renew_validate_form: the return rate is not checked.
renew_validate_form_norate(r) ==
    LET v == create_validate_form(
                 [state |-> [r.investment EXCEPT !.return_rate = 1],
                  error_messages |-> r.error_messages])
    IN [r |-> [r EXCEPT !.error_messages = v.c.error_messages],
        is_valid |-> v.is_valid]

renew_validate_form(r) ==
    LET inv == r.investment
        s0 == [em |-> r.error_messages, is_valid |-> TRUE]
        s1 == Check(s0, inv.inv_name = "", "inv-name", "Investment Name can not be blank")
        s2 == Check(s1, inv.name = "", "name", "Name can not be blank")
        s3 == Check(s2, inv.inv_type = "", "inv-type", "Investment Type can not be blank")
        s4 == Check(s3, inv.return_type = "", "return-type", "Return Type can not be blank")
        s5 == Check(s4, inv.inv_amount = 0, "inv-amount", "Investment Amount can not be blank")
        s6 == Check(s5, inv.return_amount = 0, "return-amount", "Return Amount can not be blank")
        s7 == Check(s6, inv.return_rate = 0, "return-rate", "Return Rate can not be blank")
        s8 == Check(s7, inv.start_date = None, "start-date", "Start Date can not be blank")
        s9 == Check(s8, inv.end_date = None, "end-date", "End Date can not be blank")
    IN [r |-> [r EXCEPT !.error_messages = s9.em], is_valid |-> s9.is_valid]

\* Mutant of renew_save_form: the record is emitted as a new one, without
\* its id.
renew_save_form_fresh(r) ==
    LET v == renew_validate_form(r)
    IN IF v.is_valid
       THEN [r |-> v.r,
             emitted |-> <<Emit("edit_investment",
                                [v.r.investment EXCEPT !.id = None])>>,
             saved |-> TRUE]
       ELSE [r |-> v.r, emitted |-> <<>>, saved |-> FALSE]

renew_save_form(r) ==
    LET v == renew_validate_form(r)
    IN IF v.is_valid
       THEN [r |-> v.r, emitted |-> <<Emit("edit_investment", v.r.investment)>>,
             saved |-> TRUE]
       ELSE [r |-> v.r, emitted |-> <<>>, saved |-> FALSE]

\* ---- the forms' messages
\* The record of the list item a renew form is opened on.
StoredInvestment ==
    [id |-> Some(1), inv_name |-> "x", name |-> "x", inv_type |-> "FD",
     return_type |-> "Ordinary", inv_amount |-> 1, return_amount |-> 5,
     return_rate |-> 5, start_date |-> Some(2), end_date |-> Some(3),
     created_at |-> Some(0), updated_at |-> Some(0)]

backVars == <<db, nextId, now, investments, mounted, running, calls, issued,
              initCalls, overlapInit, overlapEdit, lastSeen, arrived, apiLog>>

InitForms ==
    /\ db = <<>> /\ nextId = 1 /\ now = 0
    /\ investments = <<>> /\ mounted = TRUE /\ running = TRUE
    /\ calls = {} /\ issued = 0 /\ initCalls = 1
    /\ overlapInit = FALSE /\ overlapEdit = FALSE
    /\ lastSeen = <<>> /\ arrived = <<>> /\ apiLog = <<>>
    /\ emitted = <<>>
    /\ \/ /\ form = "create"
          /\ state = CreateInvForm_create.state
          /\ error_messages = CreateInvForm_create.error_messages
          /\ props_investment = BlankState
          /\ form_changed = FALSE
          /\ show_renew_confirmation = FALSE
       \/ /\ form = "renew"
          /\ state = BlankState
          /\ LET r == RenewInvForm_create(StoredInvestment)
             IN /\ props_investment = r.investment
                /\ error_messages = r.error_messages
                /\ form_changed = r.form_changed
                /\ show_renew_confirmation = r.show_renew_confirmation

CreateComponent == [state |-> state, error_messages |-> error_messages]

RenewComponent ==
    [form_changed |-> form_changed,
     show_renew_confirmation |-> show_renew_confirmation,
     investment |-> props_investment, error_messages |-> error_messages]

\* One update of CreateInvForm: the component becomes c, out is emitted.
CreateUpdated(c, out) ==
    /\ form = "create"
    /\ state' = c.state
    /\ error_messages' = c.error_messages
    /\ emitted' = out
    /\ UNCHANGED <<form, props_investment, form_changed, show_renew_confirmation>>
    /\ UNCHANGED backVars

\* One update of RenewInvForm.
RenewUpdated(r, out) ==
    /\ form = "renew"
    /\ props_investment' = r.investment
    /\ error_messages' = r.error_messages
    /\ form_changed' = r.form_changed
    /\ show_renew_confirmation' = r.show_renew_confirmation
    /\ emitted' = out
    /\ UNCHANGED <<form, state>>
    /\ UNCHANGED backVars

SaveAndValidate(field, value) ==
    CreateUpdated(create_update_field(CreateComponent, field, value), <<>>)

SaveAndValidateDate(field, date) ==
    CreateUpdated(create_update_date(CreateComponent, field, date), <<>>)

ResetForm == CreateUpdated(create_reset_form(CreateComponent), <<>>)

SaveForm ==
    LET s == create_save_form(CreateComponent)
    IN CreateUpdated(IF s.saved THEN create_reset_form(s.c) ELSE s.c, s.emitted)

ValidateAndSave(field, value) ==
    RenewUpdated(renew_update_field(RenewComponent, field, value), <<>>)

ValidateDateAndSave(field, date) ==
    RenewUpdated(renew_update_date(RenewComponent, field, date), <<>>)

\* Mutant of ConfirmRenewForm: a passing submit closes the confirmation.
ConfirmRenewForm_closing ==
    /\ show_renew_confirmation
    /\ LET s == renew_save_form(RenewComponent)
       IN RenewUpdated(
              IF s.saved THEN [s.r EXCEPT !.show_renew_confirmation = FALSE] ELSE s.r,
              IF s.saved THEN s.emitted \o <<EmitUnit("on_renew")>> ELSE s.emitted)

\* The Confirm and Cancel buttons exist while the confirmation is shown.
ConfirmRenewForm ==
    /\ show_renew_confirmation
    /\ LET s == renew_save_form(RenewComponent)
       IN RenewUpdated(s.r, IF s.saved THEN s.emitted \o <<EmitUnit("on_renew")>>
                            ELSE s.emitted)

CancelRenewForm ==
    /\ show_renew_confirmation
    /\ RenewUpdated([RenewComponent EXCEPT !.show_renew_confirmation = FALSE], <<>>)

\* Mutant of RenewForm: the Renew button is never disabled.
RenewForm_always ==
    RenewUpdated([RenewComponent EXCEPT !.show_renew_confirmation = TRUE], <<>>)

\* The Renew button is disabled until the form has changed.
RenewForm ==
    /\ form_changed
    /\ RenewUpdated([RenewComponent EXCEPT !.show_renew_confirmation = TRUE], <<>>)

NextForms ==
    \/ \E f \in TextKeys \cup AmountKeys : \E v \in InputsOf(f) : SaveAndValidate(f, v)
    \/ \E f \in DateKeys : \E d \in DatesOf(f) : SaveAndValidateDate(f, d)
    \/ ResetForm
    \/ SaveForm
    \/ \E f \in TextKeys \cup AmountKeys : \E v \in InputsOf(f) : ValidateAndSave(f, v)
    \/ \E f \in DateKeys : \E d \in DatesOf(f) : ValidateDateAndSave(f, d)
    \/ ConfirmRenewForm
    \/ CancelRenewForm
    \/ RenewForm

SpecForms == InitForms /\ [][NextForms]_vars


\* =================================================================== claims
RecordsOf(http) ==
    Range(http.body.all)
        \cup (IF IsSome(http.body.rec) THEN {Unwrap(http.body.rec)} ELSE {})

\* The controller handles the response of call c in this step.
Handled(c) ==
    /\ c \in calls /\ c.stage = "answered"
    /\ Len(arrived') = Len(arrived) + 1
    /\ arrived'[Len(arrived')].n = c.n

InitOk == \E i \in DOMAIN arrived : arrived[i].kind = "list" /\ arrived[i].ok

SameRecords(s, t) == Len(s) = Len(t) /\ Range(s) = Range(t)

\* C1: the client collection never holds two records with the same id.
C1_NoDuplicateIds ==
    \A i, j \in DOMAIN investments :
        i # j => investments[i].id # investments[j].id

\* C2: the collection changes only in a step that handles the successful
\* response of a call, and then only by records that response carries; every
\* record held is a server-assigned one.
C2_ConfirmedOnly ==
    /\ [](\A r \in Range(investments) : IsSome(r.id) /\ IsSome(r.created_at))
    /\ [][investments' # investments =>
            \E c \in calls :
                /\ Handled(c)
                /\ Succeeded(c.http)
                /\ Range(investments') \subseteq
                       Range(investments) \cup RecordsOf(c.http)]_vars

\* C2 witness: the backend has confirmed a create, the response has not yet
\* arrived, and the collection does not hold the record.
C2_Witness ==
    \E c \in calls :
        /\ c.kind = "create" /\ c.stage = "answered" /\ Succeeded(c.http)
        /\ Unwrap(c.http.body.rec) \notin Range(investments)

C5_CreateAppends ==
    [][\A c \in calls :
          (Handled(c) /\ c.kind = "create") =>
              IF Succeeded(c.http)
              THEN LET rec == Unwrap(c.http.body.rec)
                   IN /\ investments' = Append(investments, rec)
                      /\ IsSome(rec.id) /\ IsSome(rec.created_at)
                      /\ rec # c.arg
              ELSE investments' = investments]_vars

\* C5 witness: a create response was committed behind a record already held.
C5_Witness ==
    /\ Len(arrived) > 0
    /\ arrived[Len(arrived)].kind = "create" /\ arrived[Len(arrived)].ok
    /\ Len(investments) >= 2

\* C6: a delete response removes the record of that id exactly when it is a
\* success with affected count >= 1, the other records keeping content and
\* order; with count 0 or an error the collection stays as it is.
C6_DeleteRemovesIffAffected ==
    [][\A c \in calls :
          (Handled(c) /\ c.kind = "delete") =>
              IF Succeeded(c.http) /\ c.http.body.rows >= 1
              THEN /\ c.arg.id \notin Ids(investments')
                   /\ investments' =
                          SelectSeq(investments, LAMBDA r : r.id # c.arg.id)
              ELSE investments' = investments]_vars

\* C6 witness: of two deletes of one record, one was answered with count 1
\* and one with count 0, and the record is gone from the collection.
C6_Witness ==
    /\ \E i, j \in DOMAIN arrived :
          /\ arrived[i].kind = "delete" /\ arrived[i].ok /\ arrived[i].rows = 1
          /\ arrived[j].kind = "delete" /\ arrived[j].ok /\ arrived[j].rows = 0
          /\ arrived[i].id = arrived[j].id
          /\ arrived[i].id \notin Ids(investments)
    /\ calls = {}

C8_ErrorChangesNothing ==
    /\ [](running)
    /\ [][\A c \in calls :
             (Handled(c) /\ ~Succeeded(c.http)) =>
                 /\ investments' = investments
                 /\ calls' = calls \ {c}
                 /\ issued' = issued]_vars

\* C8 witness: a call failed, and an intent issued after that failure was
\* answered with success.
C8_Witness ==
    \E i, j \in DOMAIN arrived :
        /\ i < j
        /\ ~arrived[i].ok /\ arrived[i].kind # "list"
        /\ arrived[j].ok /\ arrived[j].n > arrived[i].n
        /\ \A c \in calls : c.n # arrived[j].n

\* C9: init_investments is invoked once, by the first render and by no later
\* one; its successful list response replaces the collection by the returned
\* sequence in the returned order.
C9_InitOnce ==
    /\ [](initCalls = (IF mounted THEN 1 ELSE 0))
    /\ [](Cardinality(InFlight("list")) <= 1)
    /\ [][\A c \in calls :
             (Handled(c) /\ c.kind = "list" /\ Succeeded(c.http)) =>
                 investments' = c.http.body.all]_vars

\* C9 witness: the list response replaced a non-empty collection by a
\* sequence of two records, and App has rendered again since the first render.
C9_Witness ==
    /\ initCalls = 1
    /\ \E i, j \in DOMAIN arrived :
          /\ i < j /\ arrived[i].ok /\ arrived[i].kind = "create"
          /\ arrived[j].kind = "list" /\ arrived[j].ok
          /\ j = Len(arrived)
    /\ Len(investments) = 2
    /\ investments = db

\* C10: delete by id is idempotent and never fails on an unknown id.  In
\* every reachable store, with the data store answering: deleting a stored id
\* answers 200 with count 1 and removes just that record, deleting any other id
\* answers 200 with count 0 and changes nothing, and a second delete of the
\* same id answers count 0 and changes nothing.  In the log of served requests
\* no delete was answered with NotFound, each count matches the records
\* removed, and of two deletes of one id with no create in between the later
\* one counted 0.
C10_DeleteIdempotent ==
    /\ \A id \in ApiIds \cup {nextId} :
          LET r1 == delete(Store, TRUE, id)
              r2 == delete(r1.st, TRUE, id)
          IN /\ r1.http.status = 200 /\ r2.http.status = 200
             /\ r1.http.body.rows = (IF Has(db, id) THEN 1 ELSE 0)
             /\ r1.st.db = SelectSeq(db, LAMBDA r : r.id # Some(id))
             /\ r1.st.nextId = nextId
             /\ r2.http.body.rows = 0
             /\ r2.st = r1.st
    /\ \A j \in DOMAIN apiLog :
          apiLog[j].op = "delete" =>
              /\ apiLog[j].http.body.err # "NotFound"
              /\ apiLog[j].up => apiLog[j].http.status = 200
              /\ \A i \in 1..(j - 1) :
                    ( /\ apiLog[i].op = "delete" /\ apiLog[i].up /\ apiLog[j].up
                      /\ apiLog[i].arg.id = apiLog[j].arg.id
                      /\ \A k \in (i + 1)..(j - 1) : apiLog[k].op # "create" )
                        => apiLog[j].http.body.rows = 0

\* C10 witness: a stored record was deleted with count 1, the same id was
\* deleted again with count 0, and the store held another record meanwhile.
C10_Witness ==
    \E i, j \in DOMAIN apiLog :
        /\ i < j
        /\ apiLog[i].op = "delete" /\ apiLog[i].http.body.rows = 1
        /\ apiLog[j].op = "delete" /\ apiLog[j].http.body.rows = 0
        /\ apiLog[j].http.status = 200
        /\ apiLog[i].arg.id = apiLog[j].arg.id

\* C10 witness of the unknown id: an id the store never assigned was deleted
\* with count 0.
C10_WitnessUnknown ==
    \E j \in DOMAIN apiLog :
        /\ apiLog[j].op = "delete" /\ apiLog[j].http.status = 200
        /\ Unwrap(apiLog[j].arg.id) >= nextId

\* The request served by the step just taken, when one was.
ServedNow == Len(apiLog') = Len(apiLog) + 1
Latest == apiLog'[Len(apiLog')]

\* C11: a create of a record without id, served by a store that answers,
\* returns 200 with a record that equals the request in every field but id,
\* created_at and updated_at; these three are present and newly assigned (the
\* id is one no stored record has, both timestamps are the time of the call),
\* and the store holds what it held plus exactly that record.
C11_CreateStamps ==
    [][ (ServedNow /\ Latest.op = "create" /\ Latest.up /\ Latest.arg.id = None) =>
          /\ Latest.http.status = 200
          /\ IsSome(Latest.http.body.rec)
          /\ LET r == Unwrap(Latest.http.body.rec)
             IN /\ IsSome(r.id) /\ IsSome(r.created_at) /\ IsSome(r.updated_at)
                /\ r = [Latest.arg EXCEPT !.id = r.id,
                                          !.created_at = r.created_at,
                                          !.updated_at = r.updated_at]
                /\ ~Has(db, Unwrap(r.id))
                /\ r.created_at = Some(now) /\ r.updated_at = Some(now)
                /\ db' = Append(db, r) ]_vars

\* C11 witness: a create was served with 200 after the clock moved, and the
\* store holds its record next to an older one.
C11_Witness ==
    /\ Len(apiLog) >= 1 /\ Len(db) >= 2 /\ now >= 1
    /\ apiLog[Len(apiLog)].op = "create"
    /\ apiLog[Len(apiLog)].http.status = 200
    /\ apiLog[Len(apiLog)].http.body.rec = Some(db[Len(db)])
    /\ db[Len(db)].created_at = Some(now)

\* C12: an update of a stored id, served by a store that answers, returns 200
\* with the merged record: the fields the patch provides take the patch's
\* values, updated_at is the time of the call, id, created_at and the fields
\* the patch leaves out keep their stored values; the store holds that record
\* in the old one's place and every other record as before, and a read of
\* the id returns it.
C12_UpdateMerges ==
    [][ ( /\ ServedNow /\ Latest.op = "update" /\ Latest.up
          /\ IsSome(Latest.arg.id) /\ Has(db, Unwrap(Latest.arg.id)) ) =>
          /\ Latest.http.status = 200
          /\ IsSome(Latest.http.body.rec)
          /\ LET r == Unwrap(Latest.http.body.rec)
                 id == Unwrap(Latest.arg.id)
                 old == db[IndexOf(db, id)]
             IN /\ r.id = old.id /\ r.created_at = old.created_at
                /\ r.inv_name = (IF Latest.arg.inv_name = "" THEN old.inv_name
                                 ELSE Latest.arg.inv_name)
                /\ r.return_amount = (IF Latest.arg.return_amount = 0
                                      THEN old.return_amount
                                      ELSE Latest.arg.return_amount)
                /\ r.updated_at = Some(now)
                /\ db' = [db EXCEPT ![IndexOf(db, id)] = r]
                /\ nextId' = nextId
                /\ get([db |-> db', nextId |-> nextId'], TRUE, id).http.body.rec
                      = Some(r) ]_vars

\* C12 witness: a patch that leaves the amount out was merged into one of two
\* stored records after the clock moved; the record kept its amount and its
\* created_at differs from its updated_at.
C12_Witness ==
    /\ Len(apiLog) >= 1 /\ Len(db) = 2
    /\ LET e == apiLog[Len(apiLog)]
       IN /\ e.op = "update" /\ e.http.status = 200
          /\ e.arg.return_amount = 0
          /\ Unwrap(e.http.body.rec).return_amount # 0
          /\ Unwrap(e.http.body.rec).inv_name = e.arg.inv_name
          /\ Unwrap(e.http.body.rec).created_at # Unwrap(e.http.body.rec).updated_at
          /\ Unwrap(e.http.body.rec) \in Range(db)

\* The request served by the step just taken repeats the one served right
\* before it: the same full-field patch for a stored id, both times answered
\* by the store.
FullPatch(p) == IsSome(p.id) /\ p.inv_name # "" /\ p.return_amount # 0

RepeatedUpdate ==
    /\ ServedNow /\ Len(apiLog) >= 1
    /\ Latest.op = "update" /\ Latest.up /\ FullPatch(Latest.arg)
    /\ apiLog[Len(apiLog)].op = "update" /\ apiLog[Len(apiLog)].up
    /\ apiLog[Len(apiLog)].arg = Latest.arg
    /\ Has(db, Unwrap(Latest.arg.id))

\* C13 as stated: the second of two applications in a row of one full-field
\* patch leaves the stored records as the first left them, and returns the
\* record the first returned.
C13_UpdateTwiceSame ==
    [][ RepeatedUpdate =>
          /\ db' = db
          /\ Latest.http.body.rec = apiLog[Len(apiLog)].http.body.rec ]_vars

\* C13 amended: the second application leaves every stored record as the
\* first left it in every field but updated_at, which is the time of the
\* second call in the patched record and unchanged in the others; the
\* record returned differs from the first one's in updated_at at most.
C13_UpdateTwiceSameButStamp ==
    [][ RepeatedUpdate =>
          /\ Latest.http.status = 200
          /\ Len(db') = Len(db)
          /\ \A i \in DOMAIN db :
                db'[i] = [db[i] EXCEPT !.updated_at =
                             IF db[i].id = Latest.arg.id THEN Some(now) ELSE @]
          /\ Latest.http.body.rec = Some(db'[IndexOf(db, Unwrap(Latest.arg.id))])
          /\ [Unwrap(Latest.http.body.rec) EXCEPT !.updated_at = None]
                = [Unwrap(apiLog[Len(apiLog)].http.body.rec) EXCEPT !.updated_at = None]
      ]_vars

\* C13 witness: one full-field patch was applied twice in a row with the
\* clock moving in between, and the stored record carries the later time.
C13_Witness ==
    /\ Len(apiLog) >= 2
    /\ LET e1 == apiLog[Len(apiLog) - 1]
           e2 == apiLog[Len(apiLog)]
       IN /\ e1.op = "update" /\ e2.op = "update" /\ e1.arg = e2.arg
          /\ FullPatch(e1.arg)
          /\ e1.http.status = 200 /\ e2.http.status = 200
          /\ Unwrap(e1.http.body.rec).updated_at # Unwrap(e2.http.body.rec).updated_at
          /\ Unwrap(e2.http.body.rec) \in Range(db)

\* C14: a read or an update of an id no stored record has, served by a store
\* that answers, is answered with the error NotFound and not with 200, and
\* the store is left as it was; no update, answered or failed, adds or
\* removes a record.
C14_UnknownIdNotFound ==
    [][ /\ ( /\ ServedNow /\ Latest.op \in {"get", "update"} /\ Latest.up
             /\ ~Has(db, Unwrap(Latest.arg.id)) ) =>
               /\ Latest.http.status # 200
               /\ ~Latest.http.body.ok
               /\ Latest.http.body.err = "NotFound"
               /\ Latest.http.body.rec = None
               /\ db' = db /\ nextId' = nextId
        /\ (ServedNow /\ Latest.op = "update") =>
               /\ Len(db') = Len(db)
               /\ Ids(db') = Ids(db)
               /\ nextId' = nextId ]_vars

\* C14 witness: with a record stored, a read and then an update of an id
\* the store does not hold were both answered NotFound.
C14_Witness ==
    /\ Len(apiLog) >= 2 /\ Len(db) >= 1
    /\ LET e1 == apiLog[Len(apiLog) - 1]
           e2 == apiLog[Len(apiLog)]
       IN /\ e1.op = "get" /\ e2.op = "update"
          /\ e1.http.body.err = "NotFound" /\ e2.http.body.err = "NotFound"
          /\ e1.http.status = 404 /\ e2.http.status = 404
          /\ ~Has(db, Unwrap(e2.arg.id))

\* C15: after any sequence of creates, updates and deletes, in any
\* interleaving, every stored record has an id and no two have the same one;
\* a create gives its record an id that no stored record has and that no
\* earlier response carried; an update leaves the ids of the stored records,
\* in their order, as they were; a delete changes no id of a record it keeps.
C15_IdsUniqueAndFixed ==
    /\ [](/\ \A i \in DOMAIN db : IsSome(db[i].id) /\ Unwrap(db[i].id) < nextId
          /\ \A i, j \in DOMAIN db : db[i].id = db[j].id => i = j)
    /\ [][ /\ (ServedNow /\ Latest.op = "create" /\ Latest.http.status = 200) =>
                 LET r == Unwrap(Latest.http.body.rec)
                 IN /\ IsSome(r.id) /\ r.id \notin Ids(db)
                    /\ \A j \in DOMAIN apiLog :
                          IsSome(apiLog[j].http.body.rec) =>
                              Unwrap(apiLog[j].http.body.rec).id # r.id
                    /\ [i \in DOMAIN db' |-> db'[i].id]
                          = Append([i \in DOMAIN db |-> db[i].id], r.id)
           /\ (ServedNow /\ Latest.op = "update") =>
                 [i \in DOMAIN db' |-> db'[i].id] = [i \in DOMAIN db |-> db[i].id]
           /\ (ServedNow /\ Latest.op = "delete") =>
                 [i \in DOMAIN db' |-> db'[i].id]
                    = SelectSeq([i \in DOMAIN db |-> db[i].id],
                                LAMBDA x : x # Latest.arg.id \/ ~Latest.up) ]_vars

\* C15 witness: two creates were served one after the other and the store
\* holds three records.
C15_Witness ==
    /\ Len(apiLog) >= 2 /\ Len(db) = 3
    /\ apiLog[Len(apiLog) - 1].op = "create"
    /\ apiLog[Len(apiLog)].op = "create"
    /\ apiLog[Len(apiLog) - 1].http.status = 200
    /\ apiLog[Len(apiLog)].http.status = 200
    /\ Cardinality(Ids(db)) = 3

\* What the adapter operation behind a request returns in the current store.
AdapterResult(op, arg, up) ==
    CASE op = "create" -> add_inv(Store, now, up, arg).res
      [] op = "get" -> get_inv(Store, up, Unwrap(arg.id)).res
      [] op = "update" -> update_inv(Store, now, up, arg).res
      [] op = "delete" -> delete_inv(Store, up, Unwrap(arg.id)).res
      [] op = "list" -> get_all_invs(Store, up).res

\* C16: every request served by one of the five handlers is answered with
\* 200 exactly when the adapter operation returned a value, and then with
\* that value; an adapter error is answered with a status outside 200..299
\* and a body that names the adapter's error kind and carries no value.
C16_ErrorsPassThrough ==
    [][ ServedNow =>
          LET a == AdapterResult(Latest.op, Latest.arg, Latest.up)
          IN /\ Latest.op \in {"create", "get", "update", "delete", "list"}
             /\ (Latest.http.status = 200) <=> a.ok
             /\ a.ok => Latest.http.body = a
             /\ ~a.ok =>
                   /\ Latest.http.status \notin 200..299
                   /\ ~Latest.http.body.ok
                   /\ Latest.http.body.err = a.err
                   /\ Latest.http.body.err \in {"NotFound", "StoreUnavailable"}
                   /\ Latest.http.body.rec = None
                   /\ Latest.http.body.all = <<>> ]_vars

\* C16 witness: a request failed with NotFound and the next one with
\* StoreUnavailable, each answered with its own kind and a non-2xx status.
C16_Witness ==
    /\ Len(apiLog) >= 2
    /\ LET e1 == apiLog[Len(apiLog) - 1]
           e2 == apiLog[Len(apiLog)]
       IN /\ e1.up /\ e1.http.body.err = "NotFound" /\ e1.http.status = 404
          /\ ~e2.up /\ e2.http.body.err = "StoreUnavailable"
          /\ e2.http.status = 503
          /\ e2.op \in {"create", "delete", "list"}

\* The nine requirements on a record: the four texts are not empty, the
\* three amounts are not zero, both dates are present.
Required(inv) ==
    /\ inv.inv_name # "" /\ inv.name # ""
    /\ inv.inv_type # "" /\ inv.return_type # ""
    /\ inv.inv_amount # 0 /\ inv.return_amount # 0 /\ inv.return_rate # 0
    /\ IsSome(inv.start_date) /\ IsSome(inv.end_date)

\* The record the form on the page holds.
Held == IF form = "create" THEN state ELSE props_investment

\* What validate_form of the form on the page answers for the held record.
IsValidNow ==
    IF form = "create"
    THEN create_validate_form(CreateComponent).is_valid
    ELSE renew_validate_form(RenewComponent).is_valid

\* C17: in the create form and in the renew form, validate_form accepts the
\* held record exactly when it meets the nine requirements; the size of an
\* amount, the order of the two dates, id and timestamps, and the error
\* messages already shown make no difference.
C17_ValidIffRequired ==
    /\ IsValidNow <=> Required(Held)
    /\ form = "create" =>
          \A em \in {NoErrors, error_messages} :
              create_validate_form([state |-> state, error_messages |-> em]).is_valid
                  = IsValidNow
    /\ form = "renew" =>
          \A fc, sc \in BOOLEAN :
              renew_validate_form(
                  [RenewComponent EXCEPT !.form_changed = fc,
                                         !.show_renew_confirmation = sc,
                                         !.error_messages = NoErrors,
                                         !.investment.id = None]).is_valid
                  = IsValidNow

\* C17 witness: the create form holds a record it accepts whose start date
\* is after its end date and whose amounts differ a thousandfold.
C17_Witness ==
    /\ form = "create" /\ IsValidNow
    /\ Unwrap(state.start_date) > Unwrap(state.end_date)
    /\ state.inv_amount = 1000 /\ state.return_amount = 5

\* C17 witness in the renew form: an accepted record with the dates in
\* either order, and a rejected one whose only failing field is an amount.
C17_WitnessRenew ==
    /\ form = "renew"
    /\ \/ IsValidNow /\ Unwrap(props_investment.start_date) > Unwrap(props_investment.end_date)
       \/ ~IsValidNow /\ Required([props_investment EXCEPT !.inv_amount = 1])

\* The fields of a record that break their requirement.
Violating(inv) ==
    {k \in FieldKeys :
        \/ k = "inv-name" /\ inv.inv_name = ""
        \/ k = "name" /\ inv.name = ""
        \/ k = "inv-type" /\ inv.inv_type = ""
        \/ k = "return-type" /\ inv.return_type = ""
        \/ k = "inv-amount" /\ inv.inv_amount = 0
        \/ k = "return-amount" /\ inv.return_amount = 0
        \/ k = "return-rate" /\ inv.return_rate = 0
        \/ k = "start-date" /\ inv.start_date = None
        \/ k = "end-date" /\ inv.end_date = None}

\* A submit of the form on the page.
Submit == SaveForm \/ ConfirmRenewForm

\* C18: a submit of a record that breaks a requirement leaves, in that one
\* step, a message under the key of every field that breaks one, next to the
\* messages that were shown before; each message is a non-empty text.
C18_EveryViolationReported ==
    [][ (Submit /\ Violating(Held) # {}) =>
          /\ DOMAIN error_messages' = DOMAIN error_messages \cup Violating(Held)
          /\ \A k \in Violating(Held) : error_messages'[k] # ""
          /\ \A k \in DOMAIN error_messages \ Violating(Held) :
                error_messages'[k] = error_messages[k] ]_vars

\* C18 witness: the create form shows messages for exactly the fields that
\* break a requirement, there are at least three of them, and a field that
\* meets its requirement comes before them in the order of the checks.
C18_Witness ==
    /\ form = "create"
    /\ DOMAIN error_messages = Violating(state)
    /\ Cardinality(Violating(state)) >= 3
    /\ {"name", "return-rate", "end-date"} \subseteq Violating(state)
    /\ "inv-name" \notin Violating(state)

\* C19: a submit of the create form emits create_investment, and a submit of
\* the renew form emits edit_investment, with the held record, exactly when
\* that record meets the nine requirements; a submit of a record that breaks
\* one emits nothing and leaves the held record as it was; and no step of
\* either form emits a record other than the one that met the requirements
\* when the step began.
C19_OnlyValidEmitted ==
    [][ /\ SaveForm =>
             IF Required(state)
             THEN emitted' = <<Emit("create_investment", state)>>
             ELSE emitted' = <<>> /\ state' = state
        /\ ConfirmRenewForm =>
             IF Required(props_investment)
             THEN emitted' = <<Emit("edit_investment", props_investment),
                               EmitUnit("on_renew")>>
             ELSE emitted' = <<>> /\ props_investment' = props_investment
        /\ emitted' # <<>> =>
             /\ Required(Held)
             /\ emitted'[1].inv = Some(Held)
             /\ emitted'[1].cb = (IF form = "create" THEN "create_investment"
                                  ELSE "edit_investment")
             /\ \A i \in 2..Len(emitted') : emitted'[i].inv = None ]_vars

\* C19 witness: the create form has just emitted a record that meets the
\* nine requirements.
C19_Witness ==
    /\ form = "create"
    /\ Len(emitted) = 1
    /\ emitted[1].cb = "create_investment"
    /\ Required(Unwrap(emitted[1].inv))

\* C19 witness of the failing submit: the renew form shows messages, holds a
\* record that breaks a requirement, and its last step emitted nothing.
C19_WitnessRejected ==
    /\ form = "renew"
    /\ error_messages # NoErrors
    /\ DOMAIN error_messages = Violating(props_investment)
    /\ emitted = <<>>

\* C20: in every state either form reaches, an edit of any field with any
\* value entered, one that meets the field's requirement or not, leaves the
\* error messages as they were without the one of that field: the field's
\* message is gone, no message is added, the others are unchanged.
C20_EditClearsOwnError ==
    /\ form = "create" =>
          /\ \A f \in TextKeys \cup AmountKeys : \A v \in InputsOf(f) \cup {""} :
                create_update_field(CreateComponent, f, v).error_messages
                    = Remove(error_messages, f)
          /\ \A f \in DateKeys : \A d \in DatesOf(f) :
                create_update_date(CreateComponent, f, d).error_messages
                    = Remove(error_messages, f)
    /\ form = "renew" =>
          /\ \A f \in TextKeys \cup AmountKeys : \A v \in InputsOf(f) \cup {""} :
                renew_update_field(RenewComponent, f, v).error_messages
                    = Remove(error_messages, f)
          /\ \A f \in DateKeys : \A d \in DatesOf(f) :
                renew_update_date(RenewComponent, f, d).error_messages
                    = Remove(error_messages, f)

\* C20 witness: the create form holds an empty investment name without a
\* message for it, while every other field that breaks a requirement, and
\* there are several, has its message.
C20_Witness ==
    /\ form = "create"
    /\ state.inv_name = ""
    /\ "inv-name" \notin DOMAIN error_messages
    /\ DOMAIN error_messages = Violating(state) \ {"inv-name"}
    /\ Cardinality(DOMAIN error_messages) >= 2

\* C20 witness in the renew form: a date was cleared, its message is not
\* shown, another field's message is.
C20_WitnessRenew ==
    /\ form = "renew"
    /\ props_investment.end_date = None
    /\ "end-date" \notin DOMAIN error_messages
    /\ error_messages # NoErrors

\* C21: after any sequence of edits, resets and submits the record the
\* create form holds has no id, no created_at and no updated_at, and so has
\* every record it emits through create_investment.
C21_CreateEmitsUnstamped ==
    form = "create" =>
        /\ state.id = None /\ state.created_at = None /\ state.updated_at = None
        /\ \A i \in DOMAIN emitted :
              /\ emitted[i].cb = "create_investment"
              /\ IsSome(emitted[i].inv)
              /\ Unwrap(emitted[i].inv).id = None
              /\ Unwrap(emitted[i].inv).created_at = None
              /\ Unwrap(emitted[i].inv).updated_at = None

\* C21 witness: the create form has emitted a record of type RD with all nine
\* fields filled and without id and timestamps, and is blank again.
C21_Witness ==
    /\ form = "create" /\ emitted # <<>>
    /\ Unwrap(emitted[1].inv).inv_type = "RD"
    /\ Unwrap(emitted[1].inv).id = None
    /\ Unwrap(emitted[1].inv).created_at = None
    /\ Unwrap(emitted[1].inv).updated_at = None
    /\ Violating(Unwrap(emitted[1].inv)) = {}
    /\ Violating(state) = FieldKeys

\* C22: in both forms the return-type selector assigns only Ordinary or
\* Cumulative, so the record a form holds has an empty return type (before
\* the first selection) or one of the two, and every record a form emits has
\* return type Ordinary or Cumulative.
C22_ReturnKindEnumerated ==
    /\ Held.return_type \in {"", "Ordinary", "Cumulative"}
    /\ \A i \in DOMAIN emitted :
          IsSome(emitted[i].inv) =>
              Unwrap(emitted[i].inv).return_type \in {"Ordinary", "Cumulative"}

\* C23: for every record either form comes to hold, and whatever messages
\* are shown, validate_form of the create form and validate_form of the
\* renew form give the same answer and leave the same error map (the same
\* keys with the same messages), and neither changes the record.
C23_ValidateFormsAgree ==
    \A em \in {NoErrors, error_messages} :
        LET c == create_validate_form([state |-> Held, error_messages |-> em])
            r == renew_validate_form(
                     [RenewComponent EXCEPT !.investment = Held,
                                            !.error_messages = em])
        IN /\ c.is_valid = r.is_valid
           /\ c.c.error_messages = r.r.error_messages
           /\ DOMAIN c.c.error_messages = DOMAIN em \cup Violating(Held)
           /\ c.c.state = Held /\ r.r.investment = Held

\* C23 witness: the renew form holds a stored record of which a text, an
\* amount and a date were cleared; both routines reject it with the same
\* three messages.
C23_Witness ==
    /\ form = "renew"
    /\ IsSome(props_investment.id)
    /\ Violating(props_investment) = {"name", "return-rate", "start-date"}
    /\ ~renew_validate_form(RenewComponent).is_valid
    /\ ~create_validate_form([state |-> props_investment,
                              error_messages |-> NoErrors]).is_valid
    /\ DOMAIN renew_validate_form(
                  [RenewComponent EXCEPT !.error_messages = NoErrors]).r.error_messages
          = {"name", "return-rate", "start-date"}

\* C24: in every state either form reaches, every key of error_messages is
\* the key of a field whose held value breaks its requirement, under the
\* message validate_form gives that field; so a form whose nine fields all
\* meet their requirements shows no message.
C24_ErrorsNameViolations ==
    /\ DOMAIN error_messages \subseteq Violating(Held)
    /\ Required(Held) => error_messages = NoErrors
    /\ \A k \in DOMAIN error_messages :
          error_messages[k]
              = create_validate_form([state |-> Held,
                                      error_messages |-> NoErrors]).c.error_messages[k]

\* C24 witness: after a rejected submit of the create form one of the
\* reported fields was filled in and a valid one was cleared: messages are
\* shown, all for fields that still break a requirement, and the cleared
\* field has none.
C24_Witness ==
    /\ form = "create"
    /\ error_messages # NoErrors
    /\ DOMAIN error_messages # Violating(state)
    /\ state.start_date # None /\ "end-date" \in DOMAIN error_messages
    /\ state.name = "" /\ "name" \notin DOMAIN error_messages
    /\ state.inv_name # ""

\* C25: in every state the renew form reaches, the record under edit has
\* the id, created_at and updated_at of the record the form was created
\* with, and so has every record emitted through edit_investment; nothing
\* else carrying a record is emitted.
C25_RenewKeepsId ==
    form = "renew" =>
        /\ props_investment.id = StoredInvestment.id
        /\ props_investment.created_at = StoredInvestment.created_at
        /\ props_investment.updated_at = StoredInvestment.updated_at
        /\ IsSome(props_investment.id)
        /\ \A i \in DOMAIN emitted :
              IsSome(emitted[i].inv) =>
                  /\ emitted[i].cb = "edit_investment"
                  /\ Unwrap(emitted[i].inv).id = StoredInvestment.id
                  /\ Unwrap(emitted[i].inv).created_at = StoredInvestment.created_at
                  /\ Unwrap(emitted[i].inv).updated_at = StoredInvestment.updated_at

\* C25 witness: the renew form has emitted the stored record with a text, a
\* selection, an amount and a date changed, under the stored record's id.
C25_Witness ==
    /\ form = "renew" /\ emitted # <<>>
    /\ emitted[1].cb = "edit_investment"
    /\ LET inv == Unwrap(emitted[1].inv)
       IN /\ inv.id = StoredInvestment.id
          /\ inv.inv_type # StoredInvestment.inv_type
          /\ inv.return_type # StoredInvestment.return_type
          /\ inv.inv_amount # StoredInvestment.inv_amount
          /\ inv.end_date # StoredInvestment.end_date

\* A field edit of the renew form.
RenewEdit ==
    \/ \E f \in TextKeys \cup AmountKeys : \E v \in InputsOf(f) : ValidateAndSave(f, v)
    \/ \E f \in DateKeys : \E d \in DatesOf(f) : ValidateDateAndSave(f, d)

\* C26: in the renew form the confirmation is shown only when the form has
\* changed; form_changed becomes true only by a field edit and never
\* becomes false again; the confirmation comes to be shown only by a Renew
\* request made when the form had changed; and a step emits only when,
\* before it, the form had changed and the confirmation was shown, so that
\* an edit and a later Renew request precede every edit_investment.
C26_ConfirmNeedsChange ==
    /\ [](form = "renew" =>
            /\ show_renew_confirmation => form_changed
            /\ emitted # <<>> => show_renew_confirmation /\ form_changed)
    /\ [][ form = "renew" =>
            /\ form_changed => form_changed'
            /\ (~form_changed /\ form_changed') => RenewEdit
            /\ (~show_renew_confirmation /\ show_renew_confirmation') =>
                   form_changed /\ RenewForm
            /\ emitted' # <<>> =>
                   /\ form_changed /\ show_renew_confirmation
                   /\ ConfirmRenewForm ]_vars

\* C26 witness: the renew form has emitted edit_investment; the form has
\* changed, the confirmation is shown and on_renew followed the record.
C26_Witness ==
    /\ form = "renew"
    /\ form_changed /\ show_renew_confirmation
    /\ Len(emitted) = 2
    /\ emitted[1].cb = "edit_investment"
    /\ emitted[2].cb = "on_renew"

\* C26 witness of the closed confirmation: the form has changed and the
\* confirmation is not shown (never requested, or cancelled).
C26_WitnessClosed ==
    /\ form = "renew"
    /\ form_changed /\ ~show_renew_confirmation
    /\ props_investment # StoredInvestment

\* C27: in the renew form a ConfirmRenewForm leaves show_renew_confirmation,
\* form_changed and the record as they are, and the confirmation stops
\* being shown only by a CancelRenewForm; so right after a step that
\* emitted, the confirmation is still shown, and a ConfirmRenewForm taken
\* then emits the same record on edit_investment, and on_renew, again.
C27_ConfirmRepeats ==
    /\ [](form = "renew" /\ emitted # <<>> =>
            /\ show_renew_confirmation
            /\ renew_save_form(RenewComponent).saved
            /\ emitted = renew_save_form(RenewComponent).emitted
                            \o <<EmitUnit("on_renew")>>)
    /\ [][ form = "renew" =>
            /\ ConfirmRenewForm =>
                   /\ show_renew_confirmation' = show_renew_confirmation
                   /\ form_changed' = form_changed
                   /\ props_investment' = props_investment
            /\ (show_renew_confirmation /\ ~show_renew_confirmation') =>
                   CancelRenewForm
            /\ (emitted # <<>> /\ ConfirmRenewForm) =>
                   /\ emitted' = emitted
                   /\ emitted'[1] = Emit("edit_investment", props_investment) ]_vars

\* C27 witness: the renew form has just emitted the record it holds, shows
\* no message, and the confirmation is still shown.
C27_Witness ==
    /\ form = "renew"
    /\ emitted # <<>>
    /\ emitted[1] = Emit("edit_investment", props_investment)
    /\ props_investment # StoredInvestment
    /\ error_messages = NoErrors
    /\ show_renew_confirmation

====
